---- MODULE Spec2Model ----
(***************************************************************************)
(* State-machine model of collectd_systemd.py (class SystemD): the         *)
(* configuration callback, the read callback with its per-read             *)
(* reinitialise-and-retry recovery, the unit handle cache and the gauges   *)
(* dispatched to collectd.  The systemd daemon and the system bus are the  *)
(* environment: their state decides the outcome of every D-Bus call.       *)
(***************************************************************************)
EXTENDS Integers, Sequences, FiniteSets, TLC

VARIABLES
    conf,             \* the children of the config block handed to configure_callback
    cfg_result,       \* "pending" | "raised" | "returned" | "registered"
    services,         \* self.services
    service_states,   \* self.service_states
    interval,         \* self.interval
    verbose_logging,  \* self.verbose_logging
    units,            \* self.units: unit name -> handle (the connection it was resolved on)
    bus,              \* self.bus: connection generation, 0 = attribute never set
    manager,          \* self.manager: generation of the connection it is bound to, 0 = never set
    pc,               \* position of the plugin: "config", "off", "idle", "read", "reinit", "retry", "emit"
    i,                \* read_callback: index of `name` in self.services
    ax,               \* read_callback: index in ALL_STATES of the axis being dispatched
    cur,              \* _dispatch_*: the local active_state / substate / load_state
    att,              \* results of the get_service_state calls of the current read
    reinits,          \* init_dbus calls made by the current read
    cacheAtRetry,     \* the domain of self.units seen on entry to the second get_service_state
    reads,            \* <<name, axis>> of every read begun in the current cycle
    emitted,          \* one block of dispatched gauges per finished read of the current cycle
    prevEmitted,      \* `emitted` of the previous cycle
    raised,           \* the current/last cycle ended with an exception leaving read_callback
    cycles,           \* read_callback invocations so far
    connect,          \* daemon: what a new connection attempt meets: "ok", "nobus", "nomanager"
    liveFrom,         \* daemon: connections of generation >= liveFrom are alive
    nextGen,          \* daemon: connections handed out so far
    ust,              \* daemon: per unit, whether GetUnit / Get succeed and the three state values
    trace,            \* the D-Bus calls and log messages of the current cycle, in order
    chg,              \* the daemon state changed since the current cycle began
    prevStable,       \* the daemon state did not change between the previous cycle's start and this one's
    changes           \* daemon state changes so far

vars == <<conf, cfg_result, services, service_states, interval, verbose_logging,
          units, bus, manager, pc, i, ax, cur, att, reinits, cacheAtRetry, reads,
          emitted, prevEmitted, raised, cycles, connect, liveFrom, nextGen, ust,
          trace, chg, prevStable, changes>>

----------------------------------------------------------------------------
(* Bounds of the model *)

MaxNodes == 3      \* children of the config block
MaxCycles == 3     \* read_callback invocations
MaxChanges == 2    \* daemon state changes

----------------------------------------------------------------------------
(* Class constants, lines 6-9 and 13 *)

ACTIVE_STATE == "ActiveState"
SUB_STATE == "SubState"
LOAD_STATE == "LoadState"
ALL_STATES == <<ACTIVE_STATE, SUB_STATE, LOAD_STATE>>
DefaultInterval == 60

Broken == "broken"

Range(s) == {s[k] : k \in DOMAIN s}

\* name + '.service' (lines 97, 112, 125)
FullName(name) == name \o ".service"

----------------------------------------------------------------------------
(* configure_callback, lines 56-84 *)

Node(k, v) == [key |-> k, values |-> v]

\* float(vals[0]) on the strings the model feeds it: a ValueError (-1) for a
\* string that is no number
FloatOf(s) == CASE s = "30" -> 30
                [] s = "60" -> 60
                [] OTHER -> -1

\* vals[0].lower()
Lower(s) == CASE s \in {"true", "True", "TRUE"} -> "true"
              [] s \in {"false", "False", "FALSE"} -> "false"
              [] OTHER -> s

KnownKeys == {"Service", "ServiceStates", "Interval", "Verbose"}

\* ApplyNode with the else branch of lines 67-69 lost: an unknown key is skipped
ApplyNodeSkipsUnknown(st, node) ==
    LET vals == node.values IN
    CASE node.key = "Service" ->
           [st EXCEPT !.services = st.services \o vals]
      [] node.key = "ServiceStates" ->
           [st EXCEPT !.service_states = st.service_states \cup Range(vals)]
      [] node.key = "Interval" ->
           IF Len(vals) = 0 THEN [st EXCEPT !.err = "IndexError"]
           ELSE IF FloatOf(vals[1]) < 0 THEN [st EXCEPT !.err = "ValueError"]
           ELSE [st EXCEPT !.interval = FloatOf(vals[1])]
      [] node.key = "Verbose" ->
           IF Len(vals) = 0 THEN [st EXCEPT !.err = "IndexError"]
           ELSE [st EXCEPT !.verbose = (Lower(vals[1]) = "true")]
      [] OTHER -> st

\* one iteration of the loop of lines 57-69 on the accumulated settings `st`;
\* st.err names the exception that left the loop, "none" while it runs
ApplyNode(st, node) ==
    LET vals == node.values IN
    CASE node.key = "Service" ->
           [st EXCEPT !.services = st.services \o vals]
      [] node.key = "ServiceStates" ->
           [st EXCEPT !.service_states = st.service_states \cup Range(vals)]
      [] node.key = "Interval" ->
           IF Len(vals) = 0 THEN [st EXCEPT !.err = "IndexError"]
           ELSE IF FloatOf(vals[1]) < 0 THEN [st EXCEPT !.err = "ValueError"]
           ELSE [st EXCEPT !.interval = FloatOf(vals[1])]
      [] node.key = "Verbose" ->
           IF Len(vals) = 0 THEN [st EXCEPT !.err = "IndexError"]
           ELSE [st EXCEPT !.verbose = (Lower(vals[1]) = "true")]
      [] OTHER -> [st EXCEPT !.err = "UnknownKey"]

RECURSIVE ConfigLoop(_, _, _)
ConfigLoop(st, nodes, k) ==
    IF k > Len(nodes) \/ st.err # "none" THEN st
    ELSE ConfigLoop(ApplyNode(st, nodes[k]), nodes, k + 1)

\* ConfigAccepted with the issubset test of lines 76-79 lost
ConfigAcceptedNoSubsetTest(st) ==
    /\ st.services # <<>>
    /\ st.service_states # {}

\* the checks of lines 70-79: TRUE when init_dbus and register_read are reached
ConfigAccepted(st) ==
    /\ st.services # <<>>
    /\ st.service_states # {}
    /\ st.service_states \subseteq Range(ALL_STATES)

\* Registered with register_read moved above init_dbus
RegisteredBeforeInit(accepted, initRaised) == accepted

\* lines 81-82: register_read is reached when the checks passed and init_dbus
\* returned
Registered(accepted, initRaised) == accepted /\ ~initRaised

----------------------------------------------------------------------------
(* The daemon and the bus: the environment of the plugin *)

ServiceNames == {"a", "b"}
UnitNames == {FullName(n) : n \in ServiceNames}

ConnectModes == {"ok", "nobus", "nomanager"}

UnitState(res, get, a, s, l) ==
    [res |-> res, get |-> get, ActiveState |-> a, SubState |-> s, LoadState |-> l]

\* a loaded, running unit
Up == UnitState(TRUE, TRUE, "active", "running", "loaded")

\* what the daemon can answer for one unit: GetUnit succeeds or not (res),
\* Properties.Get succeeds or not (get), and the values of the three
\* properties.  systemd knows more values than the plugin's gauges name
\* ("maintenance", "auto-restart", "bad-setting").  A unit that is not loaded
\* fails GetUnit while its object path still answers Get.
UnitStates ==
    { Up,
      UnitState(TRUE, TRUE, "inactive", "dead", "loaded"),
      UnitState(TRUE, TRUE, "failed", "failed", "error"),
      UnitState(TRUE, TRUE, "activating", "auto-restart", "masked"),
      UnitState(TRUE, TRUE, "deactivating", "exited", "bad-setting"),
      UnitState(TRUE, TRUE, "reloading", "running", "not-found"),
      UnitState(TRUE, TRUE, "maintenance", "dead", "loaded"),
      UnitState(TRUE, FALSE, "active", "running", "loaded"),
      UnitState(FALSE, TRUE, "inactive", "dead", "loaded"),
      UnitState(FALSE, FALSE, "inactive", "dead", "not-found") }

\* a connection of generation g still reaches the daemon
Alive(g) == g # 0 /\ g >= liveFrom

----------------------------------------------------------------------------
(* What the plugin does that the outside sees: D-Bus calls and log lines   *)

\* one entry of the trace: the call or message, the unit it is about, the
\* handle it went through, self.bus and self.manager at that moment, and
\* whether the call succeeded
Event(op, unit, handle, ok) ==
    [op |-> op, unit |-> unit, handle |-> handle, bus |-> bus, manager |-> manager,
     ok |-> ok]

\* log_verbose with the test of lines 20-21 lost
log_verboseAlways(unit) == <<Event("info", unit, 0, TRUE)>>

\* log_verbose, lines 19-22: collectd.info only when Verbose is on
log_verbose(unit) ==
    IF verbose_logging THEN <<Event("info", unit, 0, TRUE)>> ELSE <<>>

----------------------------------------------------------------------------
(* init_dbus, lines 24-30 *)

EmptyCache == [u \in {} |-> 0]

\* init_dbus with line 25 lost: the cache survives the reinitialisation
init_dbusKeepsCache(b, m) ==
    CASE connect = "nobus" ->
           [units |-> units, bus |-> b, manager |-> m,
            nextGen |-> nextGen, raised |-> TRUE]
      [] connect = "nomanager" ->
           [units |-> units, bus |-> nextGen + 1, manager |-> m,
            nextGen |-> nextGen + 1, raised |-> TRUE]
      [] OTHER ->
           [units |-> units, bus |-> nextGen + 1, manager |-> nextGen + 1,
            nextGen |-> nextGen + 1, raised |-> FALSE]

\* init_dbus with self.units = {} moved to its end: a rebuild that raises
\* leaves the cache as it was
init_dbusClearsLast(b, m) ==
    CASE connect = "nobus" ->
           [units |-> units, bus |-> b, manager |-> m,
            nextGen |-> nextGen, raised |-> TRUE]
      [] connect = "nomanager" ->
           [units |-> units, bus |-> nextGen + 1, manager |-> m,
            nextGen |-> nextGen + 1, raised |-> TRUE]
      [] OTHER ->
           [units |-> EmptyCache, bus |-> nextGen + 1, manager |-> nextGen + 1,
            nextGen |-> nextGen + 1, raised |-> FALSE]

\* self.units = {} comes first; SystemBus() then replaces self.bus, and the
\* Interface over get_object replaces self.manager.  Either call may raise
\* DBusException, which init_dbus does not catch.
init_dbus(b, m) ==
    CASE connect = "nobus" ->
           [units |-> EmptyCache, bus |-> b, manager |-> m,
            nextGen |-> nextGen, raised |-> TRUE]
      [] connect = "nomanager" ->
           [units |-> EmptyCache, bus |-> nextGen + 1, manager |-> m,
            nextGen |-> nextGen + 1, raised |-> TRUE]
      [] OTHER ->
           [units |-> EmptyCache, bus |-> nextGen + 1, manager |-> nextGen + 1,
            nextGen |-> nextGen + 1, raised |-> FALSE]

----------------------------------------------------------------------------
(* get_unit, lines 32-43, and get_service_state, lines 45-54 *)

\* self.manager.GetUnit(name) wrapped by self.bus.get_object: lines 35-37
Resolves(name) ==
    /\ Alive(bus)
    /\ Alive(manager)
    /\ name \in DOMAIN ust
    /\ ust[name].res

\* get_unit with line 42 moved out of the if: the failed resolution is cached
get_unitCachesFailure(us, name) ==
    IF name \in DOMAIN us THEN [units |-> us, unit |-> us[name], log |-> <<>>]
    ELSE IF Resolves(name)
    THEN [units |-> us @@ (name :> bus), unit |-> bus,
          log |-> <<Event("GetUnit", name, bus, TRUE)>>]
    ELSE [units |-> us @@ (name :> 0), unit |-> 0,
          log |-> <<Event("GetUnit", name, 0, FALSE), Event("warning", name, 0, FALSE)>>]

\* the cache after the call, the handle returned (0 for None) and what the
\* call did: GetUnit only on a cache miss, collectd.warning when it fails
get_unit(us, name) ==
    IF name \in DOMAIN us THEN [units |-> us, unit |-> us[name], log |-> <<>>]
    ELSE IF Resolves(name)
    THEN [units |-> us @@ (name :> bus), unit |-> bus,
          log |-> <<Event("GetUnit", name, bus, TRUE)>>]
    ELSE [units |-> us, unit |-> 0,
          log |-> <<Event("GetUnit", name, 0, FALSE), Event("warning", name, 0, FALSE)>>]

\* unit.Get('org.freedesktop.systemd1.Unit', state): line 51
PropertyGet(unit, name, state) ==
    IF Alive(unit) /\ name \in DOMAIN ust /\ ust[name].get
    THEN ust[name][state] ELSE Broken

get_service_state(us, name, state) ==
    LET g == get_unit(us, name)
        v == IF g.unit = 0 THEN Broken ELSE PropertyGet(g.unit, name, state)
    IN [units |-> g.units,
        value |-> v,
        log |-> IF g.unit = 0 THEN g.log
                ELSE g.log \o <<Event("Get", name, g.unit, v # Broken)>>
                           \o (IF v = Broken THEN log_verbose(name) ELSE <<>>)]

----------------------------------------------------------------------------
(* _dispatch_active_states / _dispatch_substates / _dispatch_load_states,   *)
(* lines 96-135, and _dispatch, lines 137-146                               *)

\* the gauges of an axis in the order of the _dispatch calls:
\* <<type_instance, state value compared with>>
ActiveGauges == << <<"active_state.active", "active">>,
                   <<"active_state.inactive", "inactive">>,
                   <<"active_state.activating", "activating">>,
                   <<"active_state.deactivating", "deactivating">>,
                   <<"active_state.reloading", "reloading">>,
                   <<"active_state.failed", "failed">> >>

SubGauges == << <<"substate.running", "running">>,
                <<"substate.exited", "exited">>,
                <<"substate.failed", "failed">>,
                <<"substate.dead", "dead">> >>

LoadGauges == << <<"load_state.loaded", "loaded">>,
                 <<"load_state.not-found", "not-found">>,
                 <<"load_state.error", "error">>,
                 <<"load_state.masked", "masked">> >>

\* Gauges with line 120 a copy of line 119: substate.exited compares with 'running'
GaugesCopiedLine(axis) ==
    CASE axis = ACTIVE_STATE -> ActiveGauges
      [] axis = SUB_STATE -> [SubGauges EXCEPT ![2] = <<"substate.exited", "running">>]
      [] axis = LOAD_STATE -> LoadGauges

Gauges(axis) ==
    CASE axis = ACTIVE_STATE -> ActiveGauges
      [] axis = SUB_STATE -> SubGauges
      [] axis = LOAD_STATE -> LoadGauges

\* int('<enumerant>' == state)
GaugeValue(enumerant, state) == IF enumerant = state THEN 1 ELSE 0

\* the sample _dispatch hands to collectd
_dispatch(name, type_instance, value, state) ==
    [plugin_instance |-> "[systemd_service=" \o name \o "]",
     type_instance |-> type_instance,
     value |-> value]

\* the _dispatch calls of one _dispatch_* function, lines 104-109, 119-122, 132-135
DispatchAll(name, axis, state) ==
    [k \in 1..Len(Gauges(axis)) |->
        _dispatch(name, Gauges(axis)[k][1], GaugeValue(Gauges(axis)[k][2], state), state)]

\* IsBroken comparing with a sentinel get_service_state never returns
IsBrokenWrongSentinel(value) == value = "Broken"

\* AfterRetry with the recovery turned into a loop: retry until the read succeeds
AfterRetryLoops(value) == IF value = Broken THEN "reinit" ELSE "emit"

\* lines 103-104, 118-119, 131-132: the second result is final, the _dispatch
\* calls follow whatever it is
AfterRetry(value) == "emit"

\* IsBroken with the comparison inverted
IsBrokenInverted(value) == value # Broken

\* the retry test of lines 99, 114, 127
IsBroken(value) == value = Broken

----------------------------------------------------------------------------
(* read_callback, lines 86-94 *)

\* NextRead with the membership tests of lines 89, 91, 93 lost
RECURSIVE NextReadEveryAxis(_, _)
NextReadEveryAxis(j, k) ==
    IF j > Len(services) THEN <<0, 0>>
    ELSE IF k >= Len(ALL_STATES) THEN NextReadEveryAxis(j + 1, 0)
    ELSE <<j, k + 1>>

\* the next <<service index, axis index>> the loop reaches after axis k of
\* service j, <<0, 0>> when the loop is over
RECURSIVE NextRead(_, _)
NextRead(j, k) ==
    IF j > Len(services) THEN <<0, 0>>
    ELSE IF k >= Len(ALL_STATES) THEN NextRead(j + 1, 0)
    ELSE IF ALL_STATES[k + 1] \in service_states THEN <<j, k + 1>>
    ELSE NextRead(j, k + 1)

----------------------------------------------------------------------------
(* Configurations *)

NodeSet ==
    { Node("Service", <<"a">>),
      Node("Service", <<"b">>),
      Node("ServiceStates", <<ACTIVE_STATE>>),
      Node("ServiceStates", <<SUB_STATE, LOAD_STATE>>),
      Node("ServiceStates", <<ACTIVE_STATE, "bogus">>),
      Node("Interval", <<"30">>),
      Node("Interval", <<"abc">>),
      Node("Verbose", <<"True">>),
      Node("Bogus", <<"x">>) }

\* every config block of at most MaxNodes children
Configs == UNION {[1..n -> NodeSet] : n \in 0..MaxNodes}

\* the config blocks the polling specification starts from
PollConfigs ==
    { <<Node("Service", <<"a", "b">>), Node("ServiceStates", <<ACTIVE_STATE>>)>>,
      <<Node("ServiceStates", <<LOAD_STATE, SUB_STATE>>), Node("Service", <<"b">>)>>,
      <<Node("Service", <<"a">>), Node("ServiceStates", <<SUB_STATE, ACTIVE_STATE>>),
        Node("Verbose", <<"True">>)>>,
      <<Node("Service", <<"a">>), Node("ServiceStates", <<"bogus">>)>> }

----------------------------------------------------------------------------
(* The state after construction, lines 11-17 and 149-150 *)

InitPlugin ==
    /\ cfg_result = "pending"
    /\ services = <<>>
    /\ service_states = {}
    /\ interval = DefaultInterval
    /\ verbose_logging = FALSE
    /\ units = EmptyCache
    /\ bus = 0
    /\ manager = 0
    /\ pc = "config"
    /\ i = 0
    /\ ax = 0
    /\ cur = "none"
    /\ att = <<>>
    /\ reinits = 0
    /\ cacheAtRetry = {}
    /\ reads = <<>>
    /\ emitted = <<>>
    /\ prevEmitted = <<>>
    /\ raised = FALSE
    /\ cycles = 0
    /\ trace = <<>>
    /\ liveFrom = 1
    /\ nextGen = 0
    /\ chg = FALSE
    /\ prevStable = FALSE
    /\ changes = 0

Init ==
    /\ InitPlugin
    /\ conf \in PollConfigs
    /\ connect \in ConnectModes
    /\ ust = [u \in UnitNames |-> Up]

InitCfg ==
    /\ InitPlugin
    /\ conf \in Configs
    /\ connect \in ConnectModes
    /\ ust \in [UnitNames -> {Up, UnitState(FALSE, FALSE, "inactive", "dead", "not-found")}]

daemonVars == <<connect, liveFrom, ust, chg, changes>>
readVars == <<i, ax, cur, att, reinits, cacheAtRetry, reads>>
cycleVars == <<emitted, prevEmitted, raised, cycles, prevStable>>
configVars == <<conf, cfg_result, services, service_states, interval, verbose_logging>>

----------------------------------------------------------------------------
(* configure_callback, lines 56-84 *)

Configure ==
    /\ pc = "config"
    /\ LET st == ConfigLoop([services |-> services, service_states |-> service_states,
                             interval |-> interval, verbose |-> verbose_logging,
                             err |-> "none"], conf, 1)
           go == st.err = "none" /\ ConfigAccepted(st)
           init == init_dbus(bus, manager)
       IN /\ services' = st.services
          /\ service_states' = st.service_states
          /\ interval' = st.interval
          /\ verbose_logging' = st.verbose
          /\ units' = IF go THEN init.units ELSE units
          /\ bus' = IF go THEN init.bus ELSE bus
          /\ manager' = IF go THEN init.manager ELSE manager
          /\ nextGen' = IF go THEN init.nextGen ELSE nextGen
          /\ cfg_result' = CASE st.err # "none" -> "raised"
                             [] ~ConfigAccepted(st) -> "returned"
                             [] init.raised -> "raised"
                             [] OTHER -> "registered"
          /\ pc' = IF Registered(go, init.raised) THEN "idle" ELSE "off"
    /\ UNCHANGED <<conf, readVars, cycleVars, daemonVars, trace>>

----------------------------------------------------------------------------
(* read_callback, lines 86-94, entered by the host every interval *)

PollStart ==
    /\ pc = "idle"
    /\ cycles < MaxCycles
    /\ cycles' = cycles + 1
    /\ prevEmitted' = emitted
    /\ emitted' = <<>>
    /\ reads' = <<>>
    /\ raised' = FALSE
    /\ prevStable' = (cycles >= 1 /\ ~chg)
    /\ chg' = FALSE
    /\ trace' = log_verbose("")
    /\ LET n == NextRead(1, 0) IN
         /\ i' = n[1]
         /\ ax' = n[2]
         /\ pc' = IF n[1] = 0 THEN "idle" ELSE "read"
    /\ UNCHANGED <<configVars, units, bus, manager, cur, att, reinits, cacheAtRetry,
                   connect, liveFrom, nextGen, ust, changes>>

\* the first get_service_state of a _dispatch_* function, lines 97-99
FirstAttempt ==
    /\ pc = "read"
    /\ LET r == get_service_state(units, FullName(services[i]), ALL_STATES[ax]) IN
         /\ units' = r.units
         /\ cur' = r.value
         /\ att' = <<r.value>>
         /\ pc' = IF IsBroken(r.value) THEN "reinit" ELSE "emit"
         /\ trace' = trace \o <<Event("dispatch", FullName(services[i]), 0, TRUE)>>
                           \o r.log
                           \o (IF IsBroken(r.value) THEN log_verbose(FullName(services[i]))
                               ELSE <<>>)
    /\ reinits' = 0
    /\ cacheAtRetry' = {}
    /\ reads' = Append(reads, <<services[i], ALL_STATES[ax]>>)
    /\ UNCHANGED <<configVars, bus, manager, i, ax, cycleVars, daemonVars, nextGen>>

\* self.init_dbus() of lines 102, 117, 130; its exception leaves read_callback
Reinit ==
    /\ pc = "reinit"
    /\ LET init == init_dbus(bus, manager) IN
         /\ units' = init.units
         /\ bus' = init.bus
         /\ manager' = init.manager
         /\ nextGen' = init.nextGen
         /\ raised' = init.raised
         /\ pc' = IF init.raised THEN "idle" ELSE "retry"
         /\ trace' = Append(trace, [op |-> "init_dbus", unit |-> FullName(services[i]),
                                    handle |-> 0, bus |-> init.bus,
                                    manager |-> init.manager, ok |-> ~init.raised])
    /\ reinits' = reinits + 1
    /\ UNCHANGED <<configVars, i, ax, cur, att, cacheAtRetry, reads, emitted,
                   prevEmitted, cycles, prevStable, daemonVars>>

\* the second get_service_state, lines 103, 118, 131
Retry ==
    /\ pc = "retry"
    /\ cacheAtRetry' = DOMAIN units
    /\ LET r == get_service_state(units, FullName(services[i]), ALL_STATES[ax]) IN
         /\ units' = r.units
         /\ cur' = r.value
         /\ att' = Append(att, r.value)
         /\ trace' = trace \o r.log
         /\ pc' = AfterRetry(r.value)
    /\ UNCHANGED <<configVars, bus, manager, i, ax, reinits, reads, cycleVars,
                   daemonVars, nextGen>>

\* the _dispatch calls of lines 104-109, 119-122, 132-135, then the loop goes on
Emit ==
    /\ pc = "emit"
    /\ emitted' = Append(emitted,
                         [name |-> services[i], axis |-> ALL_STATES[ax], state |-> cur,
                          gauges |-> DispatchAll(services[i], ALL_STATES[ax], cur)])
    /\ trace' = IF verbose_logging
                THEN trace \o [k \in 1..Len(Gauges(ALL_STATES[ax])) |->
                                  Event("info", FullName(services[i]), 0, TRUE)]
                ELSE trace
    /\ LET n == NextRead(i, ax) IN
         /\ i' = n[1]
         /\ ax' = n[2]
         /\ pc' = IF n[1] = 0 THEN "idle" ELSE "read"
    /\ UNCHANGED <<configVars, units, bus, manager, cur, att, reinits, cacheAtRetry,
                   reads, prevEmitted, raised, cycles, prevStable, daemonVars, nextGen>>

----------------------------------------------------------------------------
(* The environment: the daemon and the bus change state on their own *)

\* the daemon's changes are followed while the plugin can still observe them:
\* after registration and before the last cycle is over.  A change is placed
\* at the last moment before the plugin call that can see it: a unit change
\* before a get_service_state, a change of what a connection attempt meets
\* before init_dbus, a bus restart before any of them; all of them between
\* two cycles.  _dispatch asks the daemon nothing.
Running ==
    /\ pc \notin {"config", "off", "emit"}
    /\ ~(pc = "idle" /\ cycles = MaxCycles)

\* a unit the plugin monitors changes state (the others are never asked about);
\* inside a cycle, the unit the next get_service_state asks about
UnitChange ==
    /\ Running
    /\ pc # "retry"
    /\ changes < MaxChanges
    /\ \E u \in UnitNames, s \in UnitStates :
         /\ u \in {FullName(services[k]) : k \in 1..Len(services)}
         /\ pc # "idle" => u = FullName(services[i])
         /\ ust[u] # s
         /\ ust' = [ust EXCEPT ![u] = s]
    /\ changes' = changes + 1
    /\ chg' = TRUE
    /\ UNCHANGED <<trace, configVars, units, bus, manager, pc, readVars, cycleVars,
                   connect, liveFrom, nextGen>>

ConnectChange ==
    /\ Running
    /\ pc \in {"idle", "reinit"}
    /\ changes < MaxChanges
    /\ \E m \in ConnectModes :
         /\ connect # m
         /\ connect' = m
    /\ changes' = changes + 1
    /\ chg' = TRUE
    /\ UNCHANGED <<trace, configVars, units, bus, manager, pc, readVars, cycleVars,
                   liveFrom, nextGen, ust>>

\* the bus daemon restarts: every connection made so far is dead
BusRestart ==
    /\ Running
    /\ changes < MaxChanges
    /\ liveFrom <= nextGen
    /\ liveFrom' = nextGen + 1
    /\ changes' = changes + 1
    /\ chg' = TRUE
    /\ UNCHANGED <<trace, configVars, units, bus, manager, pc, readVars, cycleVars,
                   connect, nextGen, ust>>

----------------------------------------------------------------------------

Poll == PollStart \/ FirstAttempt \/ Reinit \/ Retry \/ Emit

Next == Configure \/ Poll \/ UnitChange \/ ConnectChange \/ BusRestart

Spec == Init /\ [][Next]_vars

NextCfg == Configure \/ Poll

SpecCfg == InitCfg /\ [][NextCfg]_vars

----------------------------------------------------------------------------
(* Vocabulary of the properties *)

RECURSIVE SumValues(_)
SumValues(gs) == IF gs = <<>> THEN 0 ELSE Head(gs).value + SumValues(Tail(gs))

IsPrefix(s, t) == Len(s) <= Len(t) /\ \A k \in 1..Len(s) : s[k] = t[k]

\* the <<name, axis>> of each block of gauges
Keys(em) == [k \in 1..Len(em) |-> <<em[k].name, em[k].axis>>]

\* the gauges alone, without the state value they were computed from
GaugeSeq(em) == [k \in 1..Len(em) |-> em[k].gauges]

\* the reads a complete cycle makes: the services in configuration order,
\* for each the configured axes in the order ActiveState, SubState, LoadState
ConfiguredAxes == SelectSeq(ALL_STATES, LAMBDA a : a \in service_states)

RECURSIVE ExpectedFrom(_)
ExpectedFrom(j) ==
    IF j > Len(services) THEN <<>>
    ELSE [k \in 1..Len(ConfiguredAxes) |-> <<services[j], ConfiguredAxes[k]>>]
         \o ExpectedFrom(j + 1)

ExpectedReads == ExpectedFrom(1)

\* the type instances the documentation lists for an axis, in declared order
DeclaredInstances(axis) ==
    CASE axis = ACTIVE_STATE ->
           <<"active_state.active", "active_state.inactive", "active_state.activating",
             "active_state.deactivating", "active_state.reloading", "active_state.failed">>
      [] axis = SUB_STATE ->
           <<"substate.running", "substate.exited", "substate.failed", "substate.dead">>
      [] axis = LOAD_STATE ->
           <<"load_state.loaded", "load_state.not-found", "load_state.error",
             "load_state.masked">>

CycleOver == pc = "idle" /\ cycles > 0

----------------------------------------------------------------------------
(* C1: in any poll cycle no connection, resolution or property-read        *)
(* failure, the failure of the reconnect of the recovery included, leaves  *)
(* read_callback or aborts the cycle: every configured service after a     *)
(* failing one is still read and has its gauges emitted in the same cycle. *)
(* Stated as the claim states it; init_dbus's uncaught exception refutes it *)
C1_NoFailureLeavesTheCycle ==
    /\ ~raised
    /\ CycleOver => Keys(emitted) = ExpectedReads

----------------------------------------------------------------------------
(* C2: for every (service, axis) read of a cycle exactly one gauge of the  *)
(* axis is 1 and the others 0, unless the final state value is 'broken',   *)
(* and then all are 0; for every state value the daemon can return.        *)
(* Stated as the claim states it; a value the gauges do not name refutes it *)
C2_ExactlyOneUnlessBroken ==
    \A k \in 1..Len(emitted) :
        /\ \A g \in 1..Len(emitted[k].gauges) : emitted[k].gauges[g].value \in {0, 1}
        /\ SumValues(emitted[k].gauges) = IF emitted[k].state = Broken THEN 0 ELSE 1

----------------------------------------------------------------------------
(* C3: every emitted gauge value is 0 or 1, the gauges of one (service,    *)
(* axis) emission never sum to more than 1, and they sum to 0 when the     *)
(* final state value is 'broken'.                                          *)
C3_GaugesAtMostOne ==
    \A k \in 1..Len(emitted) :
        /\ \A g \in 1..Len(emitted[k].gauges) : emitted[k].gauges[g].value \in {0, 1}
        /\ SumValues(emitted[k].gauges) <= 1
        /\ emitted[k].state = Broken => SumValues(emitted[k].gauges) = 0

\* a cycle that emitted a one-hot block, a 'broken' block and a block of a
\* value no gauge names
C3_Witness ==
    /\ \E k \in 1..Len(emitted) : SumValues(emitted[k].gauges) = 1
    /\ \E k \in 1..Len(emitted) : emitted[k].state = Broken
    /\ \E k \in 1..Len(prevEmitted) : prevEmitted[k].state = "maintenance"

----------------------------------------------------------------------------
(* C4: when both attempts of a read fail, the read made exactly two        *)
(* get_service_state calls and exactly one init_dbus call, and the value   *)
(* handed to the _dispatch calls is 'broken'.                              *)
C4_TwoAttemptsOneReinit ==
    (pc = "emit" /\ \A k \in 1..Len(att) : att[k] = Broken)
        => (Len(att) = 2 /\ reinits = 1 /\ cur = Broken)

\* a read about to emit after failing twice, the second time at resolution
C4_Witness ==
    /\ pc = "emit"
    /\ att = <<Broken, Broken>>
    /\ reinits = 1
    /\ FullName(services[i]) \notin DOMAIN units

\* both attempts failed at the property read: the handle resolved, Get failed
C4_WitnessGet ==
    /\ pc = "emit"
    /\ att = <<Broken, Broken>>
    /\ FullName(services[i]) \in DOMAIN units

----------------------------------------------------------------------------
(* C5: when the first attempt fails and the second succeeds, the value     *)
(* emitted is the second attempt's, the cache was empty when the second    *)
(* attempt began, and the handle the second attempt used was resolved on   *)
(* the connection made by the reinitialisation.                            *)
C5_SecondAttemptOnFreshCache ==
    (pc = "emit" /\ Len(att) = 2 /\ att[2] # Broken)
        => /\ att[1] = Broken
           /\ cur = att[2]
           /\ cacheAtRetry = {}
           /\ FullName(services[i]) \in DOMAIN units
           /\ units[FullName(services[i])] = bus

\* a recovered read whose first attempt went through a handle that was cached
\* before the read: the bus restarted under a populated cache
C5_Witness ==
    /\ pc = "emit"
    /\ Len(att) = 2
    /\ att[2] # Broken
    /\ cycles >= 2
    /\ bus >= 2
    /\ liveFrom >= 2

----------------------------------------------------------------------------
(* Vocabulary of the configuration properties: what a config block holds,  *)
(* read off the block itself and not off what the callback accumulated     *)

HasUnknownKey(nodes) == \E k \in 1..Len(nodes) : nodes[k].key \notin KnownKeys

\* every Interval and Verbose child carries a value the callback can convert
WellFormed(nodes) ==
    \A k \in 1..Len(nodes) :
        /\ nodes[k].key \in {"Interval", "Verbose"} => Len(nodes[k].values) > 0
        /\ nodes[k].key = "Interval" => FloatOf(nodes[k].values[1]) >= 0

ConfStates(nodes) ==
    UNION {Range(nodes[k].values) : k \in {n \in 1..Len(nodes) : nodes[n].key = "ServiceStates"}}

ConfHasService(nodes) ==
    \E k \in 1..Len(nodes) : nodes[k].key = "Service" /\ nodes[k].values # <<>>

\* register_read was never called, no connection was opened, no poll ran
NeverPolls ==
    /\ cfg_result # "registered"
    /\ pc \in {"config", "off"}
    /\ cycles = 0
    /\ emitted = <<>>

----------------------------------------------------------------------------
(* C6: when the ServiceStates children of the block hold a value outside   *)
(* {ActiveState, SubState, LoadState}, even next to valid values, the read *)
(* callback is never registered, no connection is opened, no poll runs.    *)
C6_BogusStateNeverPolls ==
    ~(ConfStates(conf) \subseteq Range(ALL_STATES))
        => (NeverPolls /\ bus = 0 /\ manager = 0 /\ nextGen = 0)

\* the callback returned on a block with services, a valid axis and "bogus"
C6_Witness ==
    /\ pc = "off"
    /\ cfg_result = "returned"
    /\ services # <<>>
    /\ "bogus" \in service_states
    /\ ACTIVE_STATE \in service_states

----------------------------------------------------------------------------
(* C7: an unknown key makes configure_callback raise and the read callback *)
(* is never registered, whatever children precede or follow it; a block of *)
(* known keys and convertible values with no Service or no ServiceStates   *)
(* makes it return without an error and without registering; registration  *)
(* happens only for a block with no unknown key, a Service and a non-empty *)
(* set of axes within the three.                                           *)
C7_ConfigOutcomes ==
    /\ (pc # "config" /\ HasUnknownKey(conf))
          => (cfg_result = "raised" /\ NeverPolls)
    /\ (pc # "config" /\ ~HasUnknownKey(conf) /\ WellFormed(conf)
          /\ (~ConfHasService(conf) \/ ConfStates(conf) = {}))
          => (cfg_result = "returned" /\ NeverPolls)
    /\ cfg_result = "registered"
          => /\ ~HasUnknownKey(conf)
             /\ ConfHasService(conf)
             /\ ConfStates(conf) # {}
             /\ ConfStates(conf) \subseteq Range(ALL_STATES)
    /\ HasUnknownKey(conf) => NeverPolls

\* the unknown key came last, after a Service and a valid ServiceStates
C7_Witness ==
    /\ cfg_result = "raised"
    /\ Len(conf) = 3
    /\ conf[3].key \notin KnownKeys
    /\ services # <<>>
    /\ service_states = {ACTIVE_STATE}

\* a block with axes and no Service returned silently
C7_WitnessNoService ==
    /\ cfg_result = "returned"
    /\ services = <<>>
    /\ service_states # {}
    /\ service_states \subseteq Range(ALL_STATES)

----------------------------------------------------------------------------
(* C8: within a cycle the services are read in configuration order and,    *)
(* for each, the configured axes in the order ActiveState, SubState,       *)
(* LoadState; an axis that is not configured is never read (every daemon   *)
(* call and every reinitialisation belongs to a read) and never emitted.   *)
C8_ReadOrder ==
    /\ IsPrefix(reads, ExpectedReads)
    /\ IsPrefix(Keys(emitted), reads)
    /\ Len(reads) - Len(emitted) \in {0, 1}
    /\ \A k \in 1..Len(reads) : reads[k][2] \in service_states
    /\ pc \in {"reinit", "retry", "emit"}
          => (reads # <<>> /\ reads[Len(reads)] = <<services[i], ALL_STATES[ax]>>
              /\ Len(reads) = Len(emitted) + 1)
    /\ pc = "read" => Len(reads) = Len(emitted)
    /\ (CycleOver /\ ~raised) => reads = ExpectedReads

\* a finished cycle over SubState and LoadState alone: ActiveState was skipped
C8_Witness ==
    /\ CycleOver
    /\ ~raised
    /\ ACTIVE_STATE \notin service_states
    /\ Keys(emitted) = << <<"b", SUB_STATE>>, <<"b", LOAD_STATE>> >>

\* a finished cycle over two services
C8_WitnessTwoServices ==
    /\ CycleOver
    /\ ~raised
    /\ Keys(emitted) = << <<"a", ACTIVE_STATE>>, <<"b", ACTIVE_STATE>> >>

----------------------------------------------------------------------------
(* C9: every poll cycle makes exactly one emission per enumerant per       *)
(* configured axis per configured service (6, 4, 4), in declared order,    *)
(* each tagged with the configured service name, whether the read          *)
(* succeeded or ended 'broken'.                                            *)
(* Stated as the claim states it; a cycle ended by init_dbus's exception   *)
(* refutes it                                                              *)
C9_OneEmissionPerEnumerant ==
    CycleOver =>
        /\ Keys(emitted) = ExpectedReads
        /\ \A k \in 1..Len(emitted) :
             LET want == DeclaredInstances(emitted[k].axis) IN
             /\ Len(emitted[k].gauges) = Len(want)
             /\ \A g \in 1..Len(want) :
                  /\ emitted[k].gauges[g].type_instance = want[g]
                  /\ emitted[k].gauges[g].plugin_instance
                        = "[systemd_service=" \o emitted[k].name \o "]"

----------------------------------------------------------------------------
(* C10: two successive poll cycles with no change of the daemon state from *)
(* the start of the first to the end of the second emit identical gauge    *)
(* sequences, whatever the handle cache held when each began.              *)
(* Stated as the claim states it; a cached handle that still answers for a *)
(* unit GetUnit no longer finds refutes it                                 *)
C10_IdenticalCycles ==
    (CycleOver /\ cycles >= 2 /\ prevStable /\ ~chg)
        => GaugeSeq(emitted) = GaugeSeq(prevEmitted)

----------------------------------------------------------------------------
(* Vocabulary of the properties about the calls of a cycle *)

\* the positions of the trace t that hold an event of kind op
At(t, op) == {k \in 1..Len(t) : t[k].op = op}

\* the positions of the trace t that hold a failed event of kind op
FailedAt(t, op) == {k \in At(t, op) : ~t[k].ok}

\* what the current read has put on the trace so far: from its marker on
ThisRead ==
    IF At(trace, "dispatch") = {} THEN <<>>
    ELSE LET first == CHOOSE k \in At(trace, "dispatch") :
                          \A m \in At(trace, "dispatch") : m <= k
         IN SubSeq(trace, first, Len(trace))

\* get_service_state calls on a trace: each ends in a Get or a failed GetUnit
Attempts(t) == Cardinality(At(t, "Get")) + Cardinality(FailedAt(t, "GetUnit"))

\* the service the current read is about
Own == FullName(services[i])

----------------------------------------------------------------------------
(* C11: no unit handle is used across connection generations: every handle *)
(* in the cache was resolved through the current connection, and no        *)
(* property Get is issued on a handle resolved before the latest rebuild.  *)
C11_NoStaleHandle ==
    /\ \A u \in DOMAIN units : units[u] = bus
    /\ \A k \in At(trace, "Get") : trace[k].handle = trace[k].bus

\* after a rebuild, in a later cycle: a Get went through a handle of the old
\* generation earlier in the cycle, one goes through a handle of the new one
C11_Witness ==
    /\ cycles >= 2
    /\ bus >= 2
    /\ units # EmptyCache
    /\ \E k \in At(trace, "Get") : trace[k].handle = bus
    /\ \E k \in At(trace, "Get") : trace[k].handle < bus

----------------------------------------------------------------------------
(* C12: the handle cache is cleared exactly when the connection is         *)
(* rebuilt: every init_dbus call of the recovery replaces the connection   *)
(* and then leaves an empty cache, the failing rebuild included, and the   *)
(* connection is never replaced without the cache being cleared.           *)
(* Stated as the claim states it; a rebuild that fails at SystemBus() has  *)
(* cleared the cache and replaced nothing, which refutes it                *)
C12_ClearedExactlyOnRebuild ==
    [][/\ (pc = "reinit" /\ pc' # "reinit")
            => (units' = EmptyCache /\ bus' # bus)
       /\ (bus' # bus \/ manager' # manager) => units' = EmptyCache]_vars

(* C12, amended: init_dbus empties the cache first and rebuilds the        *)
(* connection after it.  Every init_dbus call leaves an empty cache, and   *)
(* either raised or replaced bus and manager by one new generation; the    *)
(* connection is never replaced, in whole or in part, without the cache    *)
(* being emptied in the same step; no other step removes a cache entry.    *)
C12_ClearedFirstThenRebuilt ==
    [][/\ (pc = "reinit" /\ pc' # "reinit")
            => /\ units' = EmptyCache
               /\ raised' \/ (bus' # bus /\ manager' = bus')
               /\ (raised' /\ bus' = bus) => manager' = manager
       /\ (bus' # bus \/ manager' # manager) => units' = EmptyCache
       /\ (\E u \in DOMAIN units : u \notin DOMAIN units')
            => (pc = "reinit" /\ pc' # "reinit")]_vars

\* a rebuild that failed at SystemBus(): the cache held a handle that a Get of
\* this cycle went through, is empty now, and the connection is the old one
C12_Witness ==
    /\ raised
    /\ units = EmptyCache
    /\ bus = manager
    /\ bus = nextGen
    /\ \E k \in At(trace, "Get") : trace[k].ok
    /\ \E k \in FailedAt(trace, "init_dbus") : trace[k].bus = bus

----------------------------------------------------------------------------
(* C13: get_unit returns the cached handle without a daemon call when the  *)
(* name is cached; otherwise it makes one GetUnit call and stores the      *)
(* handle when the call succeeds; when the call fails it returns no        *)
(* handle, raises nothing and leaves the cache as it was, storing no empty *)
(* entry.  Read off every get_service_state step of a cycle.               *)
C13_GetUnitCachesOnlySuccess ==
    [][(pc \in {"read", "retry"} /\ pc' # pc) =>
         LET new == SubSeq(trace', Len(trace) + 1, Len(trace')) IN
           /\ raised' = raised
           /\ \A u \in DOMAIN units' : units'[u] # 0
           /\ Own \in DOMAIN units
                => /\ At(new, "GetUnit") = {}
                   /\ units' = units
                   /\ \A k \in At(new, "Get") : new[k].handle = units[Own]
                   /\ Cardinality(At(new, "Get")) = 1
           /\ Own \notin DOMAIN units
                => /\ Cardinality(At(new, "GetUnit")) = 1
                   /\ FailedAt(new, "GetUnit") = {}
                        => /\ units' = units @@ (Own :> bus)
                           /\ Cardinality(At(new, "Get")) = 1
                           /\ \A k \in At(new, "Get") : new[k].handle = bus
                   /\ FailedAt(new, "GetUnit") # {}
                        => /\ units' = units
                           /\ At(new, "Get") = {}
                           /\ att'[Len(att')] = Broken]_vars

\* a resolution that failed next to a populated cache, after a read of this
\* cycle that was served from the cache
C13_Witness ==
    /\ pc = "reinit"
    /\ units # EmptyCache
    /\ Own \notin DOMAIN units
    /\ FailedAt(ThisRead, "GetUnit") # {}
    /\ cycles >= 2
    /\ \E k \in At(trace, "Get") : k > 1 /\ trace[k - 1].op = "dispatch"

----------------------------------------------------------------------------
(* C14: recovery is capped.  One read makes at most one init_dbus call and *)
(* at most two get_service_state calls; a cycle over S services and A      *)
(* configured axes makes at most S*A init_dbus calls and 2*S*A             *)
(* get_service_state calls; every cycle terminates, each daemon call       *)
(* returning: the plugin always has a next step inside a cycle, and every  *)
(* step of the plugin lowers the number of steps the cycle has left.       *)
InCycle == pc \in {"read", "reinit", "retry", "emit"}

\* the steps the cycle can still take: four for a read not started
StepsLeft ==
    IF ~InCycle THEN 0
    ELSE 4 * (Len(ExpectedReads) - Len(emitted))
         - (CASE pc = "read" -> 0 [] pc = "reinit" -> 1 [] pc = "retry" -> 2
              [] pc = "emit" -> 3)

C14_RecoveryCapped ==
    /\ [](/\ reinits <= 1
          /\ Len(att) <= 2
          /\ LET SA == Len(services) * Len(ConfiguredAxes) IN
                /\ Cardinality(At(trace, "init_dbus")) <= SA
                /\ Attempts(trace) <= 2 * SA
          /\ pc = "read" => ENABLED FirstAttempt
          /\ pc = "reinit" => ENABLED Reinit
          /\ pc = "retry" => ENABLED Retry
          /\ pc = "emit" => ENABLED Emit)
    /\ [][(InCycle /\ pc' # pc) => StepsLeft' < StepsLeft]_vars

\* a cycle that reached both caps: every read of two failed twice
C14_Witness ==
    /\ CycleOver
    /\ ~raised
    /\ Len(ExpectedReads) = 2
    /\ Cardinality(At(trace, "init_dbus")) = 2
    /\ Attempts(trace) = 4

----------------------------------------------------------------------------
(* C15: every failed unit resolution logs exactly one warning, whatever    *)
(* Verbose is, and nothing else logs a warning: a failed property Get logs *)
(* none.  A read whose two resolutions fail logs exactly two warnings.     *)
(* With Verbose off the warnings are all that a poll cycle logs.           *)
C15_WarningsOnlyOnResolution ==
    /\ \A k \in FailedAt(trace, "GetUnit") :
          /\ k < Len(trace)
          /\ trace[k + 1].op = "warning"
          /\ trace[k + 1].unit = trace[k].unit
    /\ \A k \in At(trace, "warning") :
          k > 1 /\ trace[k - 1].op = "GetUnit" /\ ~trace[k - 1].ok
    /\ \A k \in FailedAt(trace, "Get") :
          k < Len(trace) => trace[k + 1].op # "warning"
    /\ Cardinality(FailedAt(ThisRead, "GetUnit")) = 2
          => Cardinality(At(ThisRead, "warning")) = 2
    /\ ~verbose_logging => At(trace, "info") = {}

\* Verbose off: a read that failed at resolution twice, after a read of the
\* same cycle that failed at the property Get
C15_Witness ==
    /\ ~verbose_logging
    /\ pc = "emit"
    /\ Cardinality(At(ThisRead, "warning")) = 2
    /\ FailedAt(trace, "Get") # {}

\* Verbose on: the failed Get is followed by an info message, not a warning
C15_WitnessVerbose ==
    /\ verbose_logging
    /\ FailedAt(trace, "Get") # {}
    /\ At(trace, "warning") # {}
    /\ At(trace, "info") # {}

----------------------------------------------------------------------------
(* C16: the read callback is registered only after the initial connection  *)
(* succeeded: in every state in which a poll runs, bus and manager exist;  *)
(* when the initial connection fails, no read callback is registered and   *)
(* no poll ever runs.                                                      *)
C16_RegisteredAfterConnection ==
    /\ pc \notin {"config", "off"}
          => (bus # 0 /\ manager # 0 /\ cfg_result = "registered")
    /\ cfg_result = "registered" => (bus # 0 /\ manager # 0)
    /\ (pc # "config" /\ cycles = 0 /\ changes = 0 /\ connect # "ok") => NeverPolls

\* a valid configuration whose initial connection failed at the manager:
\* the bus exists, the manager does not, nothing is registered
C16_Witness ==
    /\ pc = "off"
    /\ cfg_result = "raised"
    /\ connect = "nomanager"
    /\ services # <<>>
    /\ bus # 0
    /\ manager = 0

----------------------------------------------------------------------------
(* C17: the bus and the manager used for a unit resolution always belong   *)
(* to the same connection generation: a reinitialisation that fails half   *)
(* way never leaves a new bus next to the manager of the old connection.   *)
(* Stated as the claim states it; get_object raising after SystemBus() has *)
(* been assigned refutes it                                                *)
C17_BusAndManagerOfOneGeneration ==
    /\ pc \notin {"config", "off"} => bus = manager
    /\ \A k \in At(trace, "GetUnit") : trace[k].bus = trace[k].manager

----------------------------------------------------------------------------
(* C18: a read whose first attempt yields a non-broken value makes exactly *)
(* one property Get, calls init_dbus not at all, leaves the connection as  *)
(* it was, removes no cache entry and adds none but its own unit's; the    *)
(* _dispatch calls that follow change neither cache nor connection.        *)
C18_HealthyReadTouchesNothing ==
    [][/\ (pc = "read" /\ pc' # "read" /\ att'[1] # Broken) =>
            LET new == SubSeq(trace', Len(trace) + 1, Len(trace')) IN
              /\ pc' = "emit"
              /\ Len(att') = 1
              /\ cur' = att'[1]
              /\ reinits' = 0
              /\ Cardinality(At(new, "Get")) = 1
              /\ At(new, "init_dbus") = {}
              /\ bus' = bus /\ manager' = manager /\ nextGen' = nextGen
              /\ \A u \in DOMAIN units : u \in DOMAIN units' /\ units'[u] = units[u]
              /\ DOMAIN units' \subseteq DOMAIN units \cup {Own}
       /\ (pc = "emit" /\ pc' # "emit" /\ Len(att) = 1) =>
              /\ units' = units
              /\ bus' = bus /\ manager' = manager /\ nextGen' = nextGen
              /\ At(trace', "Get") = At(trace, "Get")
              /\ At(trace', "GetUnit") = At(trace, "GetUnit")
              /\ At(trace', "init_dbus") = At(trace, "init_dbus")]_vars

\* a healthy read that added its own unit next to the entry of another
C18_Witness ==
    /\ pc = "emit"
    /\ Len(att) = 1
    /\ att[1] # Broken
    /\ reinits = 0
    /\ Cardinality(At(ThisRead, "Get")) = 1
    /\ At(ThisRead, "GetUnit") # {}
    /\ Cardinality(DOMAIN units) = 2

----------------------------------------------------------------------------
(* C19: a unit that fails permanently causes one reinitialisation per      *)
(* configured axis in every poll cycle, and every other service, although  *)
(* re-resolved after each of them, still has its true state emitted in     *)
(* that cycle.  Read at the end of a cycle during which the daemon did not *)
(* change.  Stated as the claim states it; the reinitialisation that       *)
(* raises and ends the cycle (C1) refutes it                               *)
InitCallsFor(u) == Cardinality({k \in At(trace, "init_dbus") : trace[k].unit = u})

C19_PermanentFailureIsolated ==
    (CycleOver /\ ~chg) =>
        \A j \in 1..Len(services) :
            LET u == FullName(services[j]) IN
            /\ ~ust[u].get
                  => InitCallsFor(u) = Len(ConfiguredAxes)
                        * Cardinality({m \in 1..Len(services) : services[m] = services[j]})
            /\ (ust[u].res /\ ust[u].get)
                  => \A a \in service_states :
                        \E k \in 1..Len(emitted) :
                            /\ emitted[k].name = services[j]
                            /\ emitted[k].axis = a
                            /\ emitted[k].state = ust[u][a]

====
